---- MODULE Spec2Model ----
(***************************************************************************)
(* A model of starplot's deep-sky-object plotter (DsoPlotterMixin in       *)
(* src/src/starplot/plotters/dsos.py): the dsos() entry point, its four    *)
(* convenience wrappers, the shared style registry it reads, and the       *)
(* drawing surface it issues calls to.                                     *)
(*                                                                         *)
(* Units.  Magnitudes are held in tenths (8.0 is 80, 9.1 is 91), right     *)
(* ascension in tenths of an hour, declination in degrees, axis lengths in *)
(* arc-minutes as in the catalog, drawn extents in arc-seconds, opacity in *)
(* tenths.                                                                 *)
(*                                                                         *)
(* Python's None is the empty set and a present value v is {v}, so that a  *)
(* present 0 and an absent value are different things.                     *)
(***************************************************************************)
EXTENDS Integers, Sequences, FiniteSets, TLC

None == {}
Some(x) == {x}
Val(o) == CHOOSE x \in o : TRUE

\* Python truthiness of an optional number: None and 0 are both falsy.
TruthyNum(o) == o # None /\ Val(o) # 0
\* Python truthiness of an optional string: None and "" are both falsy.
TruthyStr(o) == o # None /\ Val(o) # ""
\* Python truthiness of an optional list: None and [] are both falsy.
TruthyList(o) == o # None /\ Val(o) # <<>>

-----------------------------------------------------------------------------
(* Bounds of the model *)

\* dsos() calls (direct or through a wrapper) made on one plot
MaxCalls == 2
\* rows of the longest multi-row catalog
MaxRows == 2
\* keyword arguments passed in one call
MaxKwargs == 3

-----------------------------------------------------------------------------
(* Expressions over object attributes (starplot.models.base) *)

MagLE(v) == [op |-> "le", attr |-> "magnitude", val |-> v, args |-> <<>>]
MagIsNull == [op |-> "is_null", attr |-> "magnitude", val |-> 0, args |-> <<>>]
OrExpr(a, b) == [op |-> "or", attr |-> "", val |-> 0, args |-> <<a, b>>]
AndExpr(a, b) == [op |-> "and", attr |-> "", val |-> 0, args |-> <<a, b>>]
\* attr <op> v, for the operators <, <=, >, >=, ==, !=
Comparison(op, attr, v) == [op |-> op, attr |-> attr, val |-> v, args |-> <<>>]
\* attr.is_null(), attr.is_not_null()
Nullity(op, attr) == [op |-> op, attr |-> attr, val |-> 0, args |-> <<>>]
\* an element of the collection handed to is_in() / is_not_in()
Lit(v) == [op |-> "lit", attr |-> "", val |-> v, args |-> <<>>]
\* attr.is_in(collection), attr.is_not_in(collection)
Membership(op, attr, collection) ==
    [op |-> op, attr |-> attr, val |-> 0,
     args |-> [k \in 1..Len(collection) |-> Lit(collection[k])]]

RECURSIVE evaluate(_, _)
evaluate(e, obj) ==
    CASE e.op = "le" -> obj[e.attr] # None /\ Val(obj[e.attr]) <= e.val
      [] e.op = "lt" -> obj[e.attr] # None /\ Val(obj[e.attr]) < e.val
      [] e.op = "gt" -> obj[e.attr] # None /\ Val(obj[e.attr]) > e.val
      [] e.op = "ge" -> obj[e.attr] # None /\ Val(obj[e.attr]) >= e.val
      [] e.op = "eq" -> obj[e.attr] # None /\ Val(obj[e.attr]) = e.val
      [] e.op = "ne" -> obj[e.attr] # None /\ Val(obj[e.attr]) # e.val
      [] e.op = "is_in" ->
            /\ obj[e.attr] # None
            /\ \E k \in 1..Len(e.args) : e.args[k].val = Val(obj[e.attr])
      [] e.op = "is_not_in" ->
            \/ obj[e.attr] = None
            \/ \A k \in 1..Len(e.args) : e.args[k].val # Val(obj[e.attr])
      [] e.op = "is_null" -> obj[e.attr] = None
      [] e.op = "is_not_null" -> obj[e.attr] # None
      [] e.op = "or" ->
            LET l == evaluate(e.args[1], obj)
                r == evaluate(e.args[2], obj)
            IN  l \/ r
      [] e.op = "and" ->
            LET l == evaluate(e.args[1], obj)
                r == evaluate(e.args[2], obj)
            IN  l /\ r

\* all([e.evaluate(_dso) for e in exprs])
AllTrue(exprs, obj) == \A k \in 1..Len(exprs) : evaluate(exprs[k], obj)

-----------------------------------------------------------------------------
(* DSO types, the style registry and the plot's bounds *)

DsoType ==
    {"OPEN_CLUSTER", "GLOBULAR_CLUSTER", "GALAXY", "GALAXY_PAIR",
     "GALAXY_TRIPLET", "NEBULA", "PLANETARY_NEBULA", "EMISSION_NEBULA",
     "STAR_CLUSTER_NEBULA", "REFLECTION_NEBULA"}

\* DsoType -> the type code of the OpenNGC catalog
ONGC_TYPE(t) ==
    CASE t = "OPEN_CLUSTER" -> "OCl"
      [] t = "GLOBULAR_CLUSTER" -> "GCl"
      [] t = "GALAXY" -> "G"
      [] t = "GALAXY_PAIR" -> "GPair"
      [] t = "GALAXY_TRIPLET" -> "GTrpl"
      [] t = "NEBULA" -> "Neb"
      [] t = "PLANETARY_NEBULA" -> "PN"
      [] t = "EMISSION_NEBULA" -> "HII"
      [] t = "STAR_CLUSTER_NEBULA" -> "Cl+N"
      [] t = "REFLECTION_NEBULA" -> "RfN"

\* catalog type code -> DsoType
ONGC_TYPE_MAP(code) == CHOOSE t \in DsoType : ONGC_TYPE(t) = code

DEFAULT_DSO_TYPES ==
    <<"OPEN_CLUSTER", "GLOBULAR_CLUSTER", "GALAXY", "GALAXY_PAIR",
      "GALAXY_TRIPLET", "NEBULA", "PLANETARY_NEBULA", "EMISSION_NEBULA",
      "STAR_CLUSTER_NEBULA", "REFLECTION_NEBULA">>

\* The marker symbol of each type the plot's style has an entry for; a type
\* outside the domain has no style.
MarkerSymbol ==
    [t \in {"OPEN_CLUSTER", "GLOBULAR_CLUSTER", "GALAXY", "NEBULA"} |->
        CASE t = "OPEN_CLUSTER" -> "circle"
          [] t = "GLOBULAR_CLUSTER" -> "circle_cross"
          [] t = "GALAXY" -> "ellipse"
          [] t = "NEBULA" -> "square"]

StyledTypes == DOMAIN MarkerSymbol

SQUARE == "square"

\* the marker alpha every style is configured with (1.0)
DefaultAlpha == 10

\* self.style.get_dso_style(dso_type): the style object of the type, shared by
\* every caller (it is named here by its type), or None
get_dso_style(dso_type) ==
    IF dso_type \in StyledTypes THEN Some(dso_type) ELSE None

\* DSO_LEGEND_LABELS
DSO_LEGEND_LABELS(t) == t

\* The plot of hash_checks' _mercator(): ra 3.6h..7.8h, dec -16..23.6 degrees
RaMin == 36
RaMax == 78
DecMin == 0 - 16
DecMax == 23

in_bounds(ra, dec) == ra >= RaMin /\ ra <= RaMax /\ dec >= DecMin /\ dec <= DecMax

\* ra / 15: degrees to hours (tenths of an hour here)
RaHours(ra_degrees) == (ra_degrees * 10) \div 15

-----------------------------------------------------------------------------
(* Catalog rows *)

Point == [geom_type |-> "Point", rings |-> <<>>]
Polygon == [geom_type |-> "Polygon", rings |-> << <<1, 2, 3, 1>> >>]
\* a Polygon whose exterior ring has no coordinates
EmptyPolygon == [geom_type |-> "Polygon", rings |-> << <<>> >>]
MultiPolygon ==
    [geom_type |-> "MultiPolygon", rings |-> << <<1, 2, 3, 1>>, <<4, 5, 6, 4>> >>]

Row(name, type, ra, dec, axes, mags, size, geom) ==
    [Name |-> name, Type |-> type, ra_degrees |-> ra, dec_degrees |-> dec,
     MajAx |-> axes[1], MinAx |-> axes[2], PosAng |-> axes[3],
     VMag |-> mags[1], BMag |-> mags[2], size_deg2 |-> size, geometry |-> geom]

\* MajAx, MinAx, PosAng: absent, zero and known values
AllAxes == {None, Some(0), Some(10)} \X {None, Some(0), Some(6)} \X {None, Some(30)}
\* the minor axis and the angle are read only next to a major axis
Axes == {a \in AllAxes : a[1] \in {None, Some(0)} => (a[2] = None /\ a[3] = None)}

\* V-Mag, B-Mag
Mags == {None, Some(0), Some(50)} \X {None, Some(91)}

\* rows that differ in shape data, all of magnitude 5.0 and inside the plot
GeomRows ==
    {Row("M42", "OCl", Some(90), Some(5), a, <<Some(50), None>>, s, g) :
        a \in Axes, s \in {None, Some(1)}, g \in {None, Some(Point)}}

\* rows with an outline, with and without axis data
OutlineRows ==
    {Row("M42", "OCl", Some(90), Some(5), a, <<Some(50), None>>, s, g) :
        a \in {<<None, None, None>>, <<Some(10), Some(6), Some(30)>>},
        s \in {None, Some(1)}, g \in {Some(Polygon), Some(MultiPolygon)}}

\* the same of a type whose marker is a square
SquareRows ==
    {Row("M42", "Neb", Some(90), Some(5), a, <<Some(50), None>>, Some(1), g) :
        a \in Axes, g \in {Some(Point)}}
        \cup {Row("M42", "Neb", Some(90), Some(5), <<Some(10), None, None>>,
                  <<Some(50), None>>, Some(1), Some(Polygon))}

\* rows that differ in magnitude data
MagRows ==
    {Row("M42", "OCl", Some(90), Some(5), <<Some(10), None, None>>, m, s, Some(Point)) :
        m \in Mags, s \in {Some(1)}}

\* rows without a position, outside the plot, or of a type without a style
OtherRows ==
    { Row("M42", "OCl", None, Some(5), <<None, None, None>>, <<Some(50), None>>, None, Some(Point)),
      Row("M42", "OCl", Some(90), None, <<None, None, None>>, <<Some(50), None>>, None, Some(Point)),
      Row("M42", "OCl", Some(300), Some(5), <<None, None, None>>, <<Some(50), None>>, None, Some(Point)),
      Row("M42", "OCl", Some(90), Some(60), <<None, None, None>>, <<Some(50), None>>, None, Some(Point)),
      Row("M42", "GPair", Some(90), Some(5), <<None, None, None>>, <<Some(50), None>>, None, Some(Point)),
      Row("M42", "GPair", Some(90), Some(5), <<Some(10), None, None>>, <<None, None>>, Some(1), None),
      Row("M42", "OCl", Some(90), Some(5), <<Some(10), None, None>>, <<Some(50), None>>, Some(1), Some(EmptyPolygon)) }

\* the rows multi-row catalogs are made of
CoreRows ==
    { Row("M42", "Neb", Some(90), Some(5), <<Some(10), None, None>>, <<Some(50), None>>, Some(1), Some(Point)),
      Row("M45", "OCl", Some(60), Some(20), <<None, None, None>>, <<None, None>>, None, Some(Point)),
      Row("NGC1980", "OCl", Some(75), Some(0 - 5), <<Some(10), Some(6), None>>, <<Some(50), None>>, Some(1), None),
      Row("Arp1", "GPair", Some(90), Some(5), <<None, None, None>>, <<Some(50), None>>, None, Some(Point)) }

\* the sequences of n different rows of S: a catalog lists an object once
RECURSIVE SeqsOf(_, _)
SeqsOf(S, n) ==
    IF n = 0 THEN {<<>>}
    ELSE UNION {{Append(s, x) : x \in S \ {s[k] : k \in 1..Len(s)}} :
                    s \in SeqsOf(S, n - 1)}

Catalogs ==
    {<<r>> : r \in GeomRows \cup OutlineRows \cup SquareRows \cup MagRows \cup OtherRows}
        \cup UNION {SeqsOf(CoreRows, n) : n \in 2..MaxRows}

-----------------------------------------------------------------------------
(* The arguments of dsos() and of its wrappers *)

\* DSO_LABELS_DEFAULT: a DsoLabelMaker without overrides
DSO_LABELS_DEFAULT == [maker |-> TRUE, overrides |-> {}]
\* a caller's plain dict of label overrides
LabelDict == [maker |-> FALSE, overrides |-> {<<"M42", "Orion Nebula">>}]

\* dict.get(key): the value, or None
DictGet(pairs, key) ==
    IF \E q \in pairs : q[1] = key
    THEN Some((CHOOSE q \in pairs : q[1] = key)[2])
    ELSE None

\* Keyword arguments: a parameter the caller did not pass is None, a passed
\* value v is Some(v); a value that is Python's None is itself None, so
\* labels=None is Some(None).
AllKwargs ==
    [mag : {None, Some(30)},
     types : {None},
     true_size : {None, Some(FALSE)},
     labels : {None, Some(None), Some(Some(LabelDict))},
     legend_labels : {None},
     alpha_fn : {None, Some(Some("by_magnitude")), Some(Some("raises"))},
     where : {None, Some(Some(<<>>)), Some(Some(<<MagLE(80)>>))},
     where_labels : {None, Some(Some(<<MagLE(30)>>))}]

\* the number of keyword arguments passed
NumPassed(kw) == Cardinality({f \in DOMAIN kw : kw[f] # None})

\* what the callers of dsos() pass
Kwargs == {kw \in AllKwargs : NumPassed(kw) <= MaxKwargs}

\* what the callers of the wrappers pass
WrapperKwargs ==
    [mag : {None, Some(30)},
     types : {None},
     true_size : {None},
     labels : {None},
     legend_labels : {None, Some(None)},
     alpha_fn : {None},
     where : {None},
     where_labels : {None}]

\* positional arguments given to a wrapper: none, or a limiting magnitude
WrapperArgs == {<<>>, <<30>>}

\* mag: float = 8.0
DefaultMag == 80

Default(passed, dflt) == IF passed = None THEN dflt ELSE Val(passed)

\* The parameters of dsos() as bound from keyword arguments, with the
\* defaults of the signature.
Bind(kw) ==
    [mag |-> Default(kw.mag, DefaultMag),
     types |-> Default(kw.types, DEFAULT_DSO_TYPES),
     true_size |-> Default(kw.true_size, TRUE),
     labels |-> Default(kw.labels, Some(DSO_LABELS_DEFAULT)),
     legend_labels |-> Default(kw.legend_labels, Some({})),
     alpha_fn |-> Default(kw.alpha_fn, None),
     where |-> Default(kw.where, None),
     where_labels |-> Default(kw.where_labels, None)]

\* The types each wrapper presets
WrapperTypes(fn) ==
    CASE fn = "open_clusters" -> <<"OPEN_CLUSTER">>
      [] fn = "globular_clusters" -> <<"GLOBULAR_CLUSTER">>
      [] fn = "galaxies" -> <<"GALAXY", "GALAXY_PAIR", "GALAXY_TRIPLET">>
      [] fn = "nebula" ->
            <<"NEBULA", "PLANETARY_NEBULA", "EMISSION_NEBULA",
              "STAR_CLUSTER_NEBULA", "REFLECTION_NEBULA">>

Wrappers == {"open_clusters", "globular_clusters", "galaxies", "nebula"}

\* self.dsos(types=[...], **kwargs): the keyword arguments a wrapper hands to
\* dsos(); the positional arguments it received are not among them.
WrapperCall(fn, args, kwargs) == [kwargs EXCEPT !.types = Some(WrapperTypes(fn))]

-----------------------------------------------------------------------------
(* dsos(): entry *)

\* ResolveWhere whose default predicate leaves the null test out
ResolveWhere_NoNullTest(where, mag) ==
    LET w == IF TruthyList(where) THEN Val(where) ELSE <<>>
    IN  IF w = <<>> THEN <<MagLE(mag)>> ELSE w

\* ResolveWhere with the limiting magnitude applied next to the caller's list
ResolveWhere_MagAlways(where, mag) ==
    LET w == IF TruthyList(where) THEN Val(where) ELSE <<>>
    IN  Append(w, OrExpr(MagIsNull, MagLE(mag)))

\* where = where or []; if not where: where = [magnitude is null | magnitude <= mag]
ResolveWhere(where, mag) ==
    LET w == IF TruthyList(where) THEN Val(where) ELSE <<>>
    IN  IF w = <<>> THEN <<OrExpr(MagIsNull, MagLE(mag))>> ELSE w

\* where_labels = where_labels or []
ResolveWhereLabels(where_labels) ==
    IF TruthyList(where_labels) THEN Val(where_labels) ELSE <<>>

\* labels None -> {}; a plain mapping -> DsoLabelMaker(overrides=labels)
ResolveLabels(labels) ==
    IF labels = None THEN [maker |-> FALSE, overrides |-> {}]
    ELSE IF ~Val(labels).maker THEN [maker |-> TRUE, overrides |-> Val(labels).overrides]
    ELSE Val(labels)

\* legend_labels None -> {}; else {**DSO_LEGEND_LABELS, **legend_labels}
ResolveLegendLabels(legend_labels) ==
    IF legend_labels = None THEN [defaults |-> FALSE, overrides |-> {}]
    ELSE [defaults |-> TRUE, overrides |-> Val(legend_labels)]

\* legend_labels.get(dso_type)
LegendGet(legend_labels, t) ==
    IF DictGet(legend_labels.overrides, t) # None
    THEN DictGet(legend_labels.overrides, t)
    ELSE IF legend_labels.defaults THEN Some(DSO_LEGEND_LABELS(t)) ELSE None

\* labels.get(name): of DsoLabelMaker the override or else the name itself,
\* of the plain empty dict None
LabelsGet(labels, name) ==
    IF labels.maker
    THEN IF TruthyStr(DictGet(labels.overrides, name))
         THEN DictGet(labels.overrides, name)
         ELSE Some(name)
    ELSE DictGet(labels.overrides, name)

\* the rows of a requested type that have a position
FilterRows(rows, types) ==
    LET dso_types == {ONGC_TYPE(types[k]) : k \in 1..Len(types)}
        Keep(d) == /\ d.Type \in dso_types
                   /\ d.ra_degrees # None
                   /\ d.dec_degrees # None
    IN  SelectSeq(rows, Keep)

-----------------------------------------------------------------------------
(* dsos(): one iteration of the loop over the candidates *)

\* magnitude = d["V-Mag"] or d["B-Mag"] or None
\* magnitude = float(magnitude) if magnitude else None
RowMagnitude(d) ==
    LET m == IF TruthyNum(d.VMag) THEN d.VMag
             ELSE IF TruthyNum(d.BMag) THEN d.BMag
             ELSE None
    IN  IF TruthyNum(m) THEN m ELSE None

\* _dso = DSO(...)
MakeDso(d) ==
    [name |-> d.Name,
     ra |-> RaHours(Val(d.ra_degrees)),
     dec |-> Val(d.dec_degrees),
     type |-> ONGC_TYPE_MAP(d.Type),
     maj_ax |-> d.MajAx,
     min_ax |-> d.MinAx,
     angle |-> d.PosAng,
     magnitude |-> RowMagnitude(d),
     size |-> d.size_deg2]

\* Skips without the test of the style
Skips_StyleUnchecked(style, dso, where) ==
    \/ ~AllTrue(where, dso)
    \/ ~in_bounds(dso.ra, dso.dec)

\* Skips without the test of the plot bounds
Skips_BoundsUnchecked(style, dso, where) ==
    \/ style = None
    \/ ~AllTrue(where, dso)

\* the test that ends an iteration with `continue`
Skips(style, dso, where) ==
    \/ style = None
    \/ ~AllTrue(where, dso)
    \/ ~in_bounds(dso.ra, dso.dec)

\* The caller's callback: "by_magnitude" returns an opacity that depends on
\* the object, "raises" raises.
AlphaFnRaises(fn) == fn = "raises"
AlphaFnValue(fn, dso) == IF dso.magnitude = None THEN 3 ELSE 6

\* LabelAfterWhereLabels without the test of where_labels
LabelAfterWhereLabels_Kept(label, where_labels, dso) == label

\* if where_labels and not all(...): label = None
LabelAfterWhereLabels(label, where_labels, dso) ==
    IF where_labels # <<>> /\ ~AllTrue(where_labels, dso) THEN None ELSE label

\* (ax / 60) / 2, in arc-seconds
HalfAxis(ax) == ((ax * 3600) \div 60) \div 2

\* A call on the drawing surface, on the caller's callback, on the
\* accumulator or on the legend; the fields a call does not use are blank.
Call(fn) ==
    [fn |-> fn, ra |-> 0, dec |-> 0, label |-> None, width |-> 0, height |-> 0,
     angle |-> 0, alpha |-> 0, symbol |-> "", coords |-> <<>>]

\* _plot_dso_polygon(polygon, style) for the rings of a geometry in turn:
\* the calls made, and whether closing a ring raised (coords[0] of an empty
\* ring), which ends the drawing.
RECURSIVE PlotPolygons(_, _, _)
PlotPolygons(rings, alpha, symbol) ==
    IF rings = <<>> THEN [calls |-> <<>>, exc |-> None]
    ELSE IF Head(rings) = <<>> THEN [calls |-> <<>>, exc |-> Some("IndexError")]
    ELSE LET coords == Head(rings) \o <<Head(rings)[1], Head(rings)[1]>>
             one == [Call("_polygon") EXCEPT !.coords = coords, !.alpha = alpha,
                                             !.symbol = symbol]
             rest == PlotPolygons(Tail(rings), alpha, symbol)
         IN  [calls |-> <<one>> \o rest.calls, exc |-> rest.exc]

\* the rectangle or ellipse of an object with a major axis
ShapeCall(dso, alpha, symbol) ==
    LET maj_ax_degrees == HalfAxis(Val(dso.maj_ax))
        min_ax_degrees == IF TruthyNum(dso.min_ax) THEN HalfAxis(Val(dso.min_ax))
                          ELSE maj_ax_degrees
        fn == IF symbol = SQUARE THEN "rectangle" ELSE "ellipse"
    IN  [Call(fn) EXCEPT !.ra = dso.ra, !.dec = dso.dec,
                         !.width = min_ax_degrees * 2,
                         !.height = maj_ax_degrees * 2,
                         !.angle = IF TruthyNum(dso.angle) THEN Val(dso.angle) ELSE 0,
                         !.alpha = alpha, !.symbol = symbol]

TextCall(dso, label) ==
    [Call("_text") EXCEPT !.ra = dso.ra, !.dec = dso.dec, !.label = label]

MarkerCall(dso, label, alpha, symbol) ==
    [Call("marker") EXCEPT !.ra = dso.ra, !.dec = dso.dec, !.label = label,
                           !.alpha = alpha, !.symbol = symbol]

\* The drawing of one object: the calls made and the exception raised, if any.
\* Reading geom_type of a geometry that is None raises.
Draw(d, dso, alpha, symbol, label, true_size) ==
    IF true_size /\ d.size_deg2 # None
    THEN LET shape ==
                IF d.geometry = None
                    THEN [calls |-> <<>>, exc |-> Some("AttributeError")]
                ELSE IF Val(d.geometry).geom_type = "Polygon"
                    THEN PlotPolygons(Val(d.geometry).rings, alpha, symbol)
                ELSE IF Val(d.geometry).geom_type = "MultiPolygon"
                    THEN PlotPolygons(Val(d.geometry).rings, alpha, symbol)
                ELSE IF TruthyNum(dso.maj_ax)
                    THEN [calls |-> <<ShapeCall(dso, alpha, symbol)>>, exc |-> None]
                ELSE [calls |-> <<>>, exc |-> None]
         IN  IF shape.exc # None THEN shape
             ELSE IF TruthyStr(label)
                  THEN [calls |-> Append(shape.calls, TextCall(dso, label)), exc |-> None]
                  ELSE shape
    ELSE [calls |-> <<MarkerCall(dso, label, alpha, symbol)>>, exc |-> None]

\* AlphaStep with the callback's exception caught and the held opacity kept
AlphaStep_Swallowed(alpha_fn, dso, held) ==
    LET call == [Call("alpha_fn") EXCEPT !.ra = dso.ra, !.dec = dso.dec]
    IN  IF alpha_fn = None
            THEN [calls |-> <<>>, exc |-> None, alpha |-> held]
        ELSE IF AlphaFnRaises(Val(alpha_fn))
            THEN [calls |-> <<call>>, exc |-> None, alpha |-> held]
        ELSE [calls |-> <<call>>, exc |-> None,
              alpha |-> AlphaFnValue(Val(alpha_fn), dso)]

\* _alpha_fn = alpha_fn or (lambda d: style.marker.alpha)
\* style.marker.alpha = _alpha_fn(_dso)
\* The call of the caller's callback, if there is one, whether it raised, and
\* the opacity the style holds afterwards.
AlphaStep(alpha_fn, dso, held) ==
    LET call == [Call("alpha_fn") EXCEPT !.ra = dso.ra, !.dec = dso.dec]
    IN  IF alpha_fn = None
            THEN [calls |-> <<>>, exc |-> None, alpha |-> held]
        ELSE IF AlphaFnRaises(Val(alpha_fn))
            THEN [calls |-> <<call>>, exc |-> Some("AlphaFnError"), alpha |-> held]
        ELSE [calls |-> <<call>>, exc |-> None,
              alpha |-> AlphaFnValue(Val(alpha_fn), dso)]

\* One iteration of the loop on row d, the style registry holding the
\* opacities `alphas`.  kind is "skip" (continue), "raise" or "plot"; calls
\* are the calls made in order; alpha is the opacity the type's style holds
\* afterwards.
Iteration(d, par, where, where_labels, labels, legend_labels, alphas) ==
    LET name == d.Name
        label0 == LabelsGet(labels, name)
        dso_type == ONGC_TYPE_MAP(d.Type)
        style == get_dso_style(dso_type)
        legend_label == LegendGet(legend_labels, dso_type)
        dso == MakeDso(d)
        held == alphas[Val(style)]
        symbol == MarkerSymbol[Val(style)]
        opacity == AlphaStep(par.alpha_fn, dso, held)
        pre == opacity.calls
        alpha == opacity.alpha
        label == LabelAfterWhereLabels(label0, where_labels, dso)
        drawn == Draw(d, dso, alpha, symbol, label, par.true_size)
        done == << [Call("append") EXCEPT !.ra = dso.ra, !.dec = dso.dec],
                   [Call("_add_legend_handle_marker") EXCEPT
                        !.label = legend_label, !.alpha = alpha, !.symbol = symbol] >>
    IN  IF Skips(style, dso, where)
            THEN [kind |-> "skip", exc |-> None, calls |-> <<>>, dso |-> dso,
                  style |-> style, alpha |-> 0, legend |-> None]
        ELSE IF style = None
            THEN [kind |-> "raise", exc |-> Some("AttributeError"), calls |-> <<>>,
                  dso |-> dso, style |-> style, alpha |-> 0, legend |-> None]
        ELSE IF opacity.exc # None
            THEN [kind |-> "raise", exc |-> opacity.exc, calls |-> pre,
                  dso |-> dso, style |-> style, alpha |-> held, legend |-> None]
        ELSE IF drawn.exc # None
            THEN [kind |-> "raise", exc |-> drawn.exc, calls |-> pre \o drawn.calls,
                  dso |-> dso, style |-> style, alpha |-> alpha, legend |-> None]
        ELSE [kind |-> "plot", exc |-> None, calls |-> pre \o drawn.calls \o done,
              dso |-> dso, style |-> style, alpha |-> alpha, legend |-> legend_label]

-----------------------------------------------------------------------------
(* styles/helpers.py: dictionaries, by identity *)

\* A dictionary is an object of the heap: a later assignment through one
\* reference is seen through every other reference to the same object.  A
\* key holds nothing, a number, or a reference to a dictionary.
Keys == {"marker", "size"}
\* the order `for k in dict_2.keys()` takes the keys in
KeyOrder == <<"marker", "size">>

Absent == [kind |-> "none", v |-> 0]
IntCell(n) == [kind |-> "int", v |-> n]
Ref(a) == [kind |-> "ref", v |-> a]
EmptyDict == [k \in Keys |-> Absent]
DictOf(m, s) == [k \in Keys |-> IF k = "marker" THEN m ELSE s]

\* the contents of the dictionary at address a, nested dictionaries included
DeepVal(h, a) ==
    [k \in Keys |->
        LET c == h[a][k]
        IN  [cell |-> IF c.kind = "ref" THEN Ref(0) ELSE c,
             sub |-> IF c.kind = "ref" THEN h[c.v] ELSE EmptyDict]]
EmptyDeep == [k \in Keys |-> [cell |-> Absent, sub |-> EmptyDict]]

\* merge_dict(dict_1, dict_2), the keys ks of dict_2 still to come
RECURSIVE MergeKeys(_, _, _, _)
MergeKeys(h, dict_1, dict_2, ks) ==
    IF ks = <<>> THEN h
    ELSE LET k == Head(ks)
             h1 == IF h[dict_2][k].kind = "none" THEN h
                   ELSE IF h[dict_1][k].kind = "ref" /\ h[dict_2][k].kind = "ref"
                        THEN MergeKeys(h, h[dict_1][k].v, h[dict_2][k].v, KeyOrder)
                   ELSE [h EXCEPT ![dict_1][k] = h[dict_2][k]]
         IN  MergeKeys(h1, dict_1, dict_2, Tail(ks))

merge_dict(h, dict_1, dict_2) == MergeKeys(h, dict_1, dict_2, KeyOrder)

\* the objects of the heap: three dictionaries of a caller, a nested
\* dictionary of each, and the plot's base style with its nested style
Dict1 == 1
Dict2 == 2
Dict3 == 3
Nested(a) == a + 3
PlotStyle == 7
PlotStyleMarker == 8
\* the objects a call of the wrapper creates
BaseStyleCopy == 9
StylingOverrides == 11

\* json.loads(obj.model_dump_json()): new dictionaries with the contents of
\* the object at a, at the addresses c and c + 1
Dump(h, a) ==
    LET top == h[a]
        sub == IF top["marker"].kind = "ref" THEN h[top["marker"].v] ELSE EmptyDict
    IN  << [top EXCEPT !["marker"] = IF @.kind = "ref" THEN Ref(BaseStyleCopy + 1) ELSE @],
           sub >>

\* one `style__a__b=value` argument put into styling_overrides: parts is
\* key.split("__")[1:], d the pair of styling_overrides and the dictionary
\* setdefault() created in it
SetPath(d, parts, value) ==
    IF Len(parts) = 1
    THEN << [d[1] EXCEPT ![parts[1]] = IntCell(value)], d[2] >>
    ELSE << [d[1] EXCEPT ![parts[1]] = Ref(StylingOverrides + 1)],
            [d[2] EXCEPT ![parts[2]] = IntCell(value)] >>

RECURSIVE BuildOverrides(_, _)
BuildOverrides(d, style_args) ==
    IF style_args = <<>> THEN d
    ELSE BuildOverrides(SetPath(d, Head(style_args).parts, Head(style_args).value),
                        Tail(style_args))

Passed(kind, value) == [kind |-> kind, value |-> value]

\* wrapper(*args, **kwargs) of use_style(style_class, style_attr): style is
\* kwargs.get("style"), style_args the `style__` keyword arguments.  The
\* result is the exception raised, if any, and else what func gets as
\* `style`; heap is the heap the caller is left with.
wrapper(h, style_attr, style, style_args) ==
    LET is_dict == style # None /\ Val(style).kind = "dict"
        truthy == style # None /\ (~is_dict \/ h[Val(style).addr] # EmptyDict)
        over == BuildOverrides(<<EmptyDict, EmptyDict>>, style_args)
        \* the heap with the dump of the base style and styling_overrides
        hx == h \o Dump(h, PlotStyle) \o over
        keep(h2) == SubSeq(h2, 1, Len(h))
        built(h2, a) ==
            [exc |-> None, passed |-> Passed("built", DeepVal(h2, a)), heap |-> keep(h2)]
        raised(e) ==
            [exc |-> Some(e), passed |-> Passed("none", EmptyDeep), heap |-> h]
    IN  IF truthy /\ is_dict
        THEN IF style_args # <<>> THEN raised("Exception")
             ELSE IF style_attr # None
                  THEN built(merge_dict(hx, BaseStyleCopy, Val(style).addr), BaseStyleCopy)
             ELSE built(h, Val(style).addr)
        ELSE IF style = None
        THEN IF style_args # <<>>
             THEN IF style_attr # None
                  THEN built(merge_dict(hx, BaseStyleCopy, StylingOverrides), BaseStyleCopy)
                  \* line 64 reads styling_overrides, which only line 48
                  \* assigns
                  ELSE raised("UnboundLocalError")
             ELSE IF style_attr # None
                  THEN [exc |-> None, passed |-> Passed("base", DeepVal(h, PlotStyle)),
                        heap |-> h]
             ELSE [exc |-> None, passed |-> Passed("none", EmptyDeep), heap |-> h]
        ELSE [exc |-> None,
              passed |-> Passed("raw", IF is_dict THEN DeepVal(h, Val(style).addr)
                                       ELSE EmptyDeep),
              heap |-> h]

-----------------------------------------------------------------------------
(* State *)

VARIABLES
    catalog,        \* the rows the catalog file yields, in file order
    marker_alpha,   \* style.marker.alpha of each style of the registry
    objects,        \* self._objects.dsos
    legend,         \* the labels a legend handle was registered for
    ncalls,         \* dsos() calls made so far
    pc,             \* "idle", "loop" (inside dsos()), "raised"
    caller,         \* the entry point called and what the caller passed
    par,            \* the parameters dsos() was called with
    frame,          \* the locals dsos() sets before its loop
    i,              \* index in frame.nearby_dsos of the next candidate
    last,           \* the candidate the loop handled last, and how
    calls,          \* the calls made for that candidate, in order
    exc,            \* the exception that ended dsos(), if any
    ev,             \* an expression, an object, and what evaluate() returned
    heap,           \* the dictionaries merge_dict() works on, by identity
    merged,         \* the merge_dict() calls made, in order
    received        \* what the last call of a use_style wrapper came to

dsoVars == <<catalog, marker_alpha, objects, legend, ncalls, pc, caller, par,
             frame, i, last, calls, exc>>
helperVars == <<ev, heap, merged, received>>
vars == <<dsoVars, helperVars>>

NoKwargs ==
    [mag |-> None, types |-> None, true_size |-> None, labels |-> None,
     legend_labels |-> None, alpha_fn |-> None, where |-> None,
     where_labels |-> None]

NoCaller == [fn |-> "", args |-> <<>>, kwargs |-> NoKwargs]
NoFrame ==
    [where |-> <<>>, where_labels |-> <<>>, labels |-> ResolveLabels(None),
     legend_labels |-> ResolveLegendLabels(None), nearby_dsos |-> <<>>]
NoDso ==
    [name |-> "", ra |-> 0, dec |-> 0, type |-> "", maj_ax |-> None,
     min_ax |-> None, angle |-> None, magnitude |-> None, size |-> None]
NoLast == [idx |-> 0, kind |-> "", dso |-> NoDso]
NoEv ==
    [expr |-> MagIsNull, mag |-> None, obj |-> NoDso, done |-> FALSE,
     result |-> FALSE]
NoReceived ==
    [done |-> FALSE, style_attr |-> None, style |-> None, style_args |-> <<>>,
     exc |-> None, passed |-> Passed("none", EmptyDeep)]

\* no expression is being evaluated, no dictionary exists, no wrapper ran
HelpersIdle ==
    /\ ev = NoEv
    /\ heap = <<>>
    /\ merged = <<>>
    /\ received = NoReceived

Init ==
    /\ catalog \in Catalogs
    /\ marker_alpha = [t \in StyledTypes |-> DefaultAlpha]
    /\ objects = <<>>
    /\ legend = {}
    /\ ncalls = 0
    /\ pc = "idle"
    /\ caller = NoCaller
    /\ par = Bind(NoKwargs)
    /\ frame = NoFrame
    /\ i = 0
    /\ last = NoLast
    /\ calls = <<>>
    /\ exc = None
    /\ HelpersIdle

\* dsos(**kw) up to the loop: the catalog is read, the arguments are
\* resolved, the rows are filtered.
Enter(kw) ==
    LET bound == Bind(kw)
    IN  /\ pc = "idle"
        /\ ncalls < MaxCalls
        /\ ncalls' = ncalls + 1
        /\ par' = bound
        /\ frame' = [where |-> ResolveWhere(bound.where, bound.mag),
                     where_labels |-> ResolveWhereLabels(bound.where_labels),
                     labels |-> ResolveLabels(bound.labels),
                     legend_labels |-> ResolveLegendLabels(bound.legend_labels),
                     nearby_dsos |-> FilterRows(catalog, bound.types)]
        /\ i' = 1
        /\ last' = NoLast
        /\ calls' = <<>>
        /\ exc' = None
        /\ pc' = "loop"
        /\ UNCHANGED <<catalog, marker_alpha, objects, legend>>
        /\ UNCHANGED helperVars

\* a direct call of dsos()
Dsos ==
    \E kw \in Kwargs :
        /\ Enter(kw)
        /\ caller' = [fn |-> "dsos", args |-> <<>>, kwargs |-> kw]

Wrapper(fn) ==
    \E args \in WrapperArgs, kw \in WrapperKwargs :
        /\ Enter(WrapperCall(fn, args, kw))
        /\ caller' = [fn |-> fn, args |-> args, kwargs |-> kw]

open_clusters == Wrapper("open_clusters")
globular_clusters == Wrapper("globular_clusters")
galaxies == Wrapper("galaxies")
nebula == Wrapper("nebula")

\* one iteration of `for _, d in nearby_dsos.iterrows()`
Iterate ==
    /\ pc = "loop"
    /\ i <= Len(frame.nearby_dsos)
    /\ LET d == frame.nearby_dsos[i]
           r == Iteration(d, par, frame.where, frame.where_labels, frame.labels,
                          frame.legend_labels, marker_alpha)
       IN  /\ last' = [idx |-> i, kind |-> r.kind, dso |-> r.dso]
           /\ calls' = r.calls
           /\ marker_alpha' =
                IF r.kind = "skip" \/ r.style = None THEN marker_alpha
                ELSE [marker_alpha EXCEPT ![Val(r.style)] = r.alpha]
           /\ objects' = IF r.kind = "plot" THEN Append(objects, r.dso) ELSE objects
           /\ legend' = IF r.kind = "plot" THEN legend \cup r.legend ELSE legend
           /\ exc' = r.exc
           /\ pc' = IF r.kind = "raise" THEN "raised" ELSE "loop"
           /\ i' = IF r.kind = "raise" THEN i ELSE i + 1
    /\ UNCHANGED <<catalog, ncalls, caller, par, frame>>
    /\ UNCHANGED helperVars

\* the loop is exhausted and dsos() returns
Return ==
    /\ pc = "loop"
    /\ i > Len(frame.nearby_dsos)
    /\ pc' = "idle"
    /\ caller' = NoCaller
    /\ par' = Bind(NoKwargs)
    /\ frame' = NoFrame
    /\ i' = 0
    /\ last' = NoLast
    /\ calls' = <<>>
    /\ UNCHANGED <<catalog, marker_alpha, objects, legend, ncalls, exc>>
    /\ UNCHANGED helperVars

\* the exception leaves dsos() and reaches the caller of the plot
Propagate ==
    /\ pc = "raised"
    /\ pc' = "idle"
    /\ caller' = NoCaller
    /\ par' = Bind(NoKwargs)
    /\ frame' = NoFrame
    /\ i' = 0
    /\ last' = NoLast
    /\ calls' = <<>>
    /\ exc' = None
    /\ UNCHANGED <<catalog, marker_alpha, objects, legend, ncalls>>
    /\ UNCHANGED helperVars

Next ==
    \/ Dsos
    \/ open_clusters
    \/ globular_clusters
    \/ galaxies
    \/ nebula
    \/ Iterate
    \/ Return
    \/ Propagate

Spec == Init /\ [][Next]_vars

-----------------------------------------------------------------------------
(* Vocabulary of the properties *)

\* the loop has handled a candidate in the current call
Handled == pc \in {"loop", "raised"} /\ last.idx > 0
\* the catalog row of that candidate
CurRow == frame.nearby_dsos[last.idx]

DrawFns == {"marker", "_polygon", "rectangle", "ellipse"}
ShapeFns == {"rectangle", "ellipse"}
CallsOf(fns) == {k \in 1..Len(calls) : calls[k].fn \in fns}

\* the candidate was selected: it was not skipped
Selected == Handled /\ last.kind # "skip"
\* ... and the caller's callback did not end the call
Reached == Selected /\ exc # Some("AlphaFnError")

\* the row has no outline: its geometry is no Polygon and no MultiPolygon
NoOutline(d) ==
    d.geometry = None \/ Val(d.geometry).geom_type \notin {"Polygon", "MultiPolygon"}

\* the label an object is to get: none with labels=None, none when a
\* where_labels predicate is false for it, else the override, else the name
ExpectedLabel(d, dso) ==
    IF par.labels = None THEN None
    ELSE IF /\ par.where_labels # None
            /\ \E k \in 1..Len(Val(par.where_labels)) :
                    ~evaluate(Val(par.where_labels)[k], dso)
         THEN None
    ELSE IF \E q \in Val(par.labels).overrides : q[1] = d.Name
         THEN Some((CHOOSE q \in Val(par.labels).overrides : q[1] = d.Name)[2])
    ELSE Some(d.Name)

-----------------------------------------------------------------------------
(* C1 *)

\* C1: the opacity held by every shared style of the registry is, after each
\* processed object and after each call, what it was before the first call;
\* so an object plotted without alpha_fn is drawn with the configured
\* default opacity.
C1_SharedStyleAlphaKept ==
    /\ \A t \in StyledTypes : marker_alpha[t] = DefaultAlpha
    /\ (Handled /\ last.kind = "plot" /\ par.alpha_fn = None) =>
            \A k \in CallsOf(DrawFns) : calls[k].alpha = DefaultAlpha

-----------------------------------------------------------------------------
(* C2 *)

\* C2: a selected object with true_size on and size data present, whose
\* geometry is neither Polygon nor MultiPolygon and which has no major axis
\* (absent or zero), gets exactly one marker call, at (ra/15, dec) and with
\* its resolved label; and every object that was appended to the accumulator
\* had a shape or marker call issued for it.
C2_NoShapeFallsToMarker ==
    /\ ( /\ Reached
         /\ par.true_size
         /\ CurRow.size_deg2 # None
         /\ CurRow.geometry # None
         /\ NoOutline(CurRow)
         /\ (CurRow.MajAx = None \/ CurRow.MajAx = Some(0)) ) =>
            /\ Cardinality(CallsOf({"marker"})) = 1
            /\ \A k \in CallsOf({"marker"}) :
                    /\ calls[k].ra = RaHours(Val(CurRow.ra_degrees))
                    /\ calls[k].dec = Val(CurRow.dec_degrees)
                    /\ calls[k].label = ExpectedLabel(CurRow, last.dso)
    /\ (Handled /\ last.kind = "plot") => CallsOf(DrawFns) # {}

-----------------------------------------------------------------------------
(* C3 *)

\* the caller supplied a non-empty `where`
WhereSupplied == par.where # None /\ Val(par.where) # <<>>

\* C3: the predicates that select objects are the caller's `where` list when
\* one is supplied, and then `mag` plays no part in the selection; they are
\* the single predicate "magnitude unknown or magnitude <= mag" when `where`
\* is None or empty.
C3_WherePrecedesMag ==
    Handled =>
        LET dso == last.dso
            eligible == /\ get_dso_style(dso.type) # None
                        /\ in_bounds(dso.ra, dso.dec)
        IN  /\ WhereSupplied =>
                /\ frame.where = Val(par.where)
                /\ Selected <=>
                        /\ eligible
                        /\ \A k \in 1..Len(Val(par.where)) :
                                evaluate(Val(par.where)[k], dso)
            /\ ~WhereSupplied =>
                /\ Len(frame.where) = 1
                /\ Selected <=>
                        /\ eligible
                        /\ (dso.magnitude = None \/ Val(dso.magnitude) <= par.mag)

\* an object fainter than `mag` is plotted because the caller's where admits it
C3_Witness ==
    /\ Handled
    /\ last.kind = "plot"
    /\ par.where = Some(<<MagLE(80)>>)
    /\ par.mag = 30
    /\ last.dso.magnitude = Some(50)

-----------------------------------------------------------------------------
(* C4 *)

\* the magnitude a row is to have: V-Mag when present, else B-Mag when
\* present, else unknown
ClaimedMagnitude(d) ==
    IF d.VMag # None THEN d.VMag
    ELSE IF d.BMag # None THEN d.BMag
    ELSE None

\* C4: the record built for a row has the row's V-Mag as magnitude whenever
\* V-Mag is present (0 included), else its B-Mag when present, else None; so
\* under the default predicate a row with a V-Mag is included iff
\* V-Mag <= mag, and one with only a B-Mag above the limit is excluded.
C4_MagnitudeIsVMagElseBMag ==
    Handled =>
        /\ last.dso.magnitude = ClaimedMagnitude(CurRow)
        /\ ( /\ ~WhereSupplied
             /\ get_dso_style(last.dso.type) # None
             /\ in_bounds(last.dso.ra, last.dso.dec) ) =>
                /\ CurRow.VMag # None => (Selected <=> Val(CurRow.VMag) <= par.mag)
                /\ (CurRow.VMag = None /\ CurRow.BMag # None) =>
                        (Selected <=> Val(CurRow.BMag) <= par.mag)

-----------------------------------------------------------------------------
(* C5 *)

\* the geometry is missing, or is a polygon without coordinates
Unusable(geometry) ==
    \/ geometry = None
    \/ \E k \in 1..Len(Val(geometry).rings) : Val(geometry).rings[k] = <<>>

\* C5: a selected record whose geometry is missing or unusable, with
\* true_size on and size data present, does not end dsos(): it is drawn by
\* the marker fallback and the loop goes on to the next candidate.
C5_UnusableGeometryDegrades ==
    ( /\ Reached
      /\ par.true_size
      /\ CurRow.size_deg2 # None
      /\ Unusable(CurRow.geometry) ) =>
        /\ pc = "loop"
        /\ exc = None
        /\ i = last.idx + 1
        /\ CallsOf({"marker"}) # {}

-----------------------------------------------------------------------------
(* C6 *)

\* the object is drawn at its true size: true_size is on and it has size data
TrueSizePath == par.true_size /\ CurRow.size_deg2 # None

\* C6: the label handed to the drawing surface for an object, by marker() on
\* the marker path and by _text() on the true-size path, is none when
\* labels=None was passed, none when a where_labels predicate is false for
\* the object, else the caller's override for its name, else its catalog
\* name; and _text() is not called for an object whose label is none.
C6_LabelHandedToSurface ==
    Handled =>
        LET want == ExpectedLabel(CurRow, last.dso)
        IN  /\ \A k \in CallsOf({"marker"}) : calls[k].label = want
            /\ \A k \in CallsOf({"_text"}) : calls[k].label = want /\ want # None
            /\ last.kind = "plot" =>
                IF TrueSizePath
                THEN /\ CallsOf({"marker"}) = {}
                     /\ Cardinality(CallsOf({"_text"})) = (IF want = None THEN 0 ELSE 1)
                ELSE /\ Cardinality(CallsOf({"marker"})) = 1
                     /\ CallsOf({"_text"}) = {}

\* an object drawn at its true size, with an override for its name, gets no
\* text because a where_labels predicate is false for it
C6_Witness ==
    /\ Handled
    /\ last.kind = "plot"
    /\ TrueSizePath
    /\ par.labels = Some(LabelDict)
    /\ CurRow.Name = "M42"
    /\ par.where_labels = Some(<<MagLE(30)>>)
    /\ last.dso.magnitude = Some(50)
    /\ CallsOf(ShapeFns) # {}
    /\ CallsOf({"_text"}) = {}

-----------------------------------------------------------------------------
(* C7 *)

\* C7: a wrapper calls dsos() once with `types` preset to its list and every
\* other argument of the caller, positional or keyword, passed on unchanged.
\* (dsos() takes the limiting magnitude as its first positional parameter.)
C7_WrapperForwardsAll ==
    (pc = "loop" /\ caller.fn \in Wrappers) =>
        /\ par.types = WrapperTypes(caller.fn)
        /\ par.true_size = Default(caller.kwargs.true_size, TRUE)
        /\ par.labels = Default(caller.kwargs.labels, Some(DSO_LABELS_DEFAULT))
        /\ par.legend_labels = Default(caller.kwargs.legend_labels, Some({}))
        /\ par.alpha_fn = Default(caller.kwargs.alpha_fn, None)
        /\ par.where = Default(caller.kwargs.where, None)
        /\ par.where_labels = Default(caller.kwargs.where_labels, None)
        /\ caller.kwargs.mag # None => par.mag = Val(caller.kwargs.mag)
        /\ (caller.kwargs.mag = None /\ caller.args # <<>>) => par.mag = caller.args[1]

-----------------------------------------------------------------------------
(* C8 *)

\* the next candidate of the loop has a type the registry has no style for
NextUnstyled ==
    /\ pc = "loop"
    /\ i <= Len(frame.nearby_dsos)
    /\ get_dso_style(ONGC_TYPE_MAP(frame.nearby_dsos[i].Type)) = None

\* C8: a candidate whose type has no style is skipped silently: nothing is
\* raised, no call is made for it (no draw call, no alpha_fn call), nothing
\* is appended to the accumulator, no legend handle is registered, no style
\* is touched, and the loop goes on with the next candidate.
C8_UnstyledSkipped ==
    [][NextUnstyled =>
        /\ pc' = "loop"
        /\ exc' = None
        /\ i' = i + 1
        /\ last' = [idx |-> i, kind |-> "skip", dso |-> MakeDso(frame.nearby_dsos[i])]
        /\ calls' = <<>>
        /\ objects' = objects
        /\ legend' = legend
        /\ marker_alpha' = marker_alpha]_vars

\* a candidate without a style was skipped in a call that has an alpha_fn,
\* and the candidate after it was then plotted
C8_Witness ==
    /\ Handled
    /\ last.idx = 2
    /\ last.kind = "plot"
    /\ par.alpha_fn # None
    /\ get_dso_style(ONGC_TYPE_MAP(frame.nearby_dsos[1].Type)) = None
    /\ Len(objects) = 1

-----------------------------------------------------------------------------
(* C9 *)

\* (ax / 60) / 2 degrees, in arc-seconds: ax arc-minutes are ax * 60
\* arc-seconds
HalfExtent(ax) == (ax * 60) \div 2

\* C9: a selected object with true_size on, size data present, no outline and
\* a known major axis gets exactly one shape call, centred at (ra/15, dec): a
\* rectangle iff the marker symbol is SQUARE, else an ellipse; its half-major
\* extent is (MajAx/60)/2, its half-minor extent (MinAx/60)/2 when MinAx is
\* present and the half-major extent when it is absent, its rotation PosAng
\* when present and 0 when absent.
C9_AxisShape ==
    ( /\ Reached
      /\ TrueSizePath
      /\ NoOutline(CurRow)
      /\ CurRow.MajAx # None
      /\ CurRow.MajAx # Some(0) ) =>
        LET half_major == HalfExtent(Val(CurRow.MajAx))
            half_minor == IF CurRow.MinAx # None THEN HalfExtent(Val(CurRow.MinAx))
                          ELSE half_major
        IN  /\ Cardinality(CallsOf(DrawFns)) = 1
            /\ \A k \in CallsOf(DrawFns) :
                /\ calls[k].fn =
                    IF MarkerSymbol[last.dso.type] = SQUARE THEN "rectangle" ELSE "ellipse"
                /\ calls[k].ra = RaHours(Val(CurRow.ra_degrees))
                /\ calls[k].dec = Val(CurRow.dec_degrees)
                /\ calls[k].height = 2 * half_major
                /\ calls[k].width = 2 * half_minor
                /\ calls[k].angle = IF CurRow.PosAng # None THEN Val(CurRow.PosAng) ELSE 0

-----------------------------------------------------------------------------
(* C10 *)

\* the next candidate of the loop has a style, satisfies every predicate of
\* `where` and is inside the plot
NextSelected ==
    /\ pc = "loop"
    /\ i <= Len(frame.nearby_dsos)
    /\ LET dso == MakeDso(frame.nearby_dsos[i])
       IN  /\ get_dso_style(dso.type) # None
           /\ \A k \in 1..Len(frame.where) : evaluate(frame.where[k], dso)
           /\ in_bounds(dso.ra, dso.dec)

\* C10: alpha_fn is called at most once per candidate, only on a candidate
\* that has a style, satisfies `where` and is in bounds, and before every
\* draw call for it; when it raises, the exception leaves dsos(): nothing is
\* drawn, appended or registered for the candidate, and no later candidate
\* is processed.
C10_AlphaFnCalledOnceAndPropagates ==
    [][ /\ (pc = "loop" /\ i <= Len(frame.nearby_dsos)) =>
            /\ Len(SelectSeq(calls', LAMBDA c : c.fn = "alpha_fn")) <= 1
            /\ (\E k \in 1..Len(calls') : calls'[k].fn = "alpha_fn") =>
                    /\ NextSelected
                    /\ par.alpha_fn # None
                    /\ calls'[1].fn = "alpha_fn"
            /\ (NextSelected /\ par.alpha_fn # None) => calls' # <<>>
            /\ (NextSelected /\ par.alpha_fn = Some("raises")) =>
                    /\ pc' = "raised"
                    /\ exc' = Some("AlphaFnError")
                    /\ calls' = << [Call("alpha_fn") EXCEPT
                                        !.ra = MakeDso(frame.nearby_dsos[i]).ra,
                                        !.dec = MakeDso(frame.nearby_dsos[i]).dec] >>
                    /\ objects' = objects
                    /\ legend' = legend
                    /\ i' = i
        /\ pc = "raised" =>
            /\ pc' = "idle"
            /\ objects' = objects
            /\ legend' = legend
            /\ marker_alpha' = marker_alpha ]_vars

\* alpha_fn raised on a selected candidate while a later candidate was still
\* to be processed
C10_Witness ==
    /\ pc = "raised"
    /\ exc = Some("AlphaFnError")
    /\ last.idx < Len(frame.nearby_dsos)
    /\ Len(calls) = 1
    /\ calls[1].fn = "alpha_fn"

-----------------------------------------------------------------------------
(* C12 *)

\* the row has a requested type and a position
Candidate(d) ==
    /\ \E k \in 1..Len(par.types) : ONGC_TYPE(par.types[k]) = d.Type
    /\ d.ra_degrees # None
    /\ d.dec_degrees # None

\* the record of the row satisfies every selection predicate of the call
Satisfies(dso) ==
    IF WhereSupplied
    THEN \A k \in 1..Len(Val(par.where)) : evaluate(Val(par.where)[k], dso)
    ELSE dso.magnitude = None \/ Val(dso.magnitude) <= par.mag

\* the row is one the call is to plot
Eligible(d) ==
    /\ Candidate(d)
    /\ get_dso_style(ONGC_TYPE_MAP(d.Type)) # None
    /\ Satisfies(MakeDso(d))
    /\ in_bounds(MakeDso(d).ra, MakeDso(d).dec)

\* the records of the rows to plot, in the order of the rows
Expected(rows) ==
    LET sel == SelectSeq(rows, Eligible)
    IN  [k \in 1..Len(sel) |-> MakeDso(sel[k])]

Suffix(seq, n) == SubSeq(seq, Len(seq) - n + 1, Len(seq))

\* in the calls made for one row, the single append comes after every draw
\* call
AppendedAfterDraws(log) ==
    /\ Cardinality({k \in 1..Len(log) : log[k].fn = "append"}) = 1
    /\ \A k, a \in 1..Len(log) :
            (log[k].fn \in DrawFns \cup {"_text"} /\ log[a].fn = "append") => k < a

\* the loop is exhausted: the call is about to return
Completing == pc = "loop" /\ i > Len(frame.nearby_dsos)

\* C12: entering dsos() appends nothing; an iteration that does not raise
\* appends the record of its row, once and after the row's draw calls, when
\* the row has a requested type, a position, a style, satisfies every
\* selection predicate and is inside the plot bounds, and otherwise draws
\* nothing and appends nothing; so when the call returns, the records it
\* appended are those of exactly these rows, in the order of the catalog.
C12_AppendedAreTheSelectedRows ==
    [][/\ (pc = "idle" /\ pc' = "loop") => objects' = objects
       /\ (pc = "loop" /\ ~Completing /\ pc' = "loop") =>
            LET d == frame.nearby_dsos[i]
            IN  IF Eligible(d)
                THEN /\ objects' = Append(objects, MakeDso(d))
                     /\ AppendedAfterDraws(calls')
                ELSE /\ objects' = objects
                     /\ \A k \in 1..Len(calls') :
                            calls'[k].fn \notin DrawFns \cup {"_text", "append"}
       /\ (Completing /\ pc' = "idle") =>
            /\ objects' = objects
            /\ Len(objects) >= Len(Expected(catalog))
            /\ Suffix(objects, Len(Expected(catalog))) = Expected(catalog)
            /\ ncalls = 1 => objects = Expected(catalog)]_vars

\* a second call is about to return: it plotted the last of at least two
\* rows and left a row of the catalog out
C12_Witness ==
    /\ Completing
    /\ ncalls = 2
    /\ last.kind = "plot"
    /\ Len(catalog) >= 2
    /\ Len(Expected(catalog)) >= 1
    /\ Len(Expected(catalog)) < Len(catalog)
    /\ Len(objects) > Len(Expected(catalog))

-----------------------------------------------------------------------------
(* Expression evaluation on objects with null attributes *)

\* the literals and collections expressions are built with
ExprVals == {30, 80}
ExprCollections == {<<>>, <<30>>, <<30, 50>>}
ExprAttrs == {"magnitude", "size"}
CmpOps == {"lt", "le", "gt", "ge", "eq", "ne"}

Comparisons == {Comparison(op, a, v) : op \in CmpOps, a \in ExprAttrs, v \in ExprVals}
Nullities == {Nullity(op, a) : op \in {"is_null", "is_not_null"}, a \in ExprAttrs}
Memberships ==
    {Membership(op, a, c) :
        op \in {"is_in", "is_not_in"}, a \in ExprAttrs, c \in ExprCollections}
\* (a == v) | (b != w), (a == v) | ((b == w) & (c < u)) as tests/test_models.py
\* combines them
Composites ==
    {OrExpr(Comparison("eq", "magnitude", 80), Comparison(op, "size", 30)) :
        op \in {"eq", "ne"}}
    \cup {OrExpr(Comparison("eq", "size", 80),
                 AndExpr(Comparison("eq", "size", 30), Comparison("lt", "magnitude", v))) :
            v \in ExprVals}
Exprs == Comparisons \cup Nullities \cup Memberships \cup Composites

\* objects whose magnitude and size are known or unknown
ExprObjects ==
    {[NoDso EXCEPT !.magnitude = m, !.size = z] :
        m \in {None, Some(30), Some(50), Some(91)}, z \in {None, Some(30)}}

\* the limiting magnitudes dsos() is called with when where is not supplied
WhereMags == {0, 30, DefaultMag, 91}

ExprInit ==
    /\ catalog = <<>>
    /\ marker_alpha = [t \in StyledTypes |-> DefaultAlpha]
    /\ objects = <<>>
    /\ legend = {}
    /\ ncalls = 0
    /\ pc = "idle"
    /\ caller = NoCaller
    /\ par = Bind(NoKwargs)
    /\ frame = NoFrame
    /\ i = 0
    /\ last = NoLast
    /\ calls = <<>>
    /\ exc = None
    /\ heap = <<>>
    /\ merged = <<>>
    /\ received = NoReceived
    /\ \E o \in ExprObjects :
        \/ \E e \in Exprs : ev = [NoEv EXCEPT !.expr = e, !.obj = o]
        \/ \E m \in WhereMags : ev = [NoEv EXCEPT !.mag = Some(m), !.obj = o]

\* e.evaluate(obj) for an expression the caller built
Evaluate ==
    /\ ~ev.done
    /\ ev.mag = None
    /\ ev' = [ev EXCEPT !.done = TRUE, !.result = evaluate(ev.expr, ev.obj)]
    /\ UNCHANGED <<dsoVars, heap, merged, received>>

\* all([e.evaluate(_dso) for e in where]) with the where dsos(mag=m) builds
\* when the caller supplies none
EvaluateDefaultWhere ==
    /\ ~ev.done
    /\ ev.mag # None
    /\ ev' = [ev EXCEPT !.done = TRUE,
                        !.result = AllTrue(ResolveWhere(None, Val(ev.mag)), ev.obj)]
    /\ UNCHANGED <<dsoVars, heap, merged, received>>

ExprNext ==
    \/ Evaluate
    \/ EvaluateDefaultWhere

ExprSpec == ExprInit /\ [][ExprNext]_vars

\* C11: on an object whose attribute is null every comparison on that
\* attribute and every is_in() is false, is_null() is true and is_not_null()
\* is false; is_null() and is_not_null() are each other's negation on every
\* object; the predicate dsos() builds by default is true for every object of
\* unknown magnitude, whatever the limiting magnitude.
C11_NullAttributeHandled ==
    ev.done =>
        LET e == ev.expr
            o == ev.obj
        IN  /\ (ev.mag = None /\ e.attr \in ExprAttrs /\ o[e.attr] = None) =>
                /\ e.op \in CmpOps \cup {"is_in"} => ev.result = FALSE
                /\ e.op = "is_null" => ev.result = TRUE
                /\ e.op = "is_not_null" => ev.result = FALSE
            /\ (ev.mag = None /\ e.op = "is_null") =>
                    ev.result = ~evaluate(Nullity("is_not_null", e.attr), o)
            /\ (ev.mag = None /\ e.op = "is_not_null") =>
                    ev.result = ~evaluate(Nullity("is_null", e.attr), o)
            /\ (ev.mag # None /\ o.magnitude = None) => ev.result = TRUE

\* the default predicate was evaluated on an object of unknown magnitude
C11_Witness ==
    /\ ev.done
    /\ ev.mag # None
    /\ ev.obj.magnitude = None
    /\ ev.result = TRUE

-----------------------------------------------------------------------------
(* styles/helpers.py: merge_dict() and the wrapper of use_style() at work *)

MaxMerges == 2

\* a dictionary at address a, with its nested dictionary: `marker` is one of
\* markers or one of the nested dictionaries subs, `size` is one of sizes
Tops(a, markers, subs, sizes) ==
    {<<DictOf(m, z), EmptyDict>> : m \in markers, z \in sizes}
    \cup {<<DictOf(Ref(Nested(a)), z), sub>> : sub \in subs, z \in sizes}

\* the contents the plot's base style has
PlotStyleValue == <<DictOf(Ref(PlotStyleMarker), IntCell(9)), DictOf(IntCell(9), IntCell(9))>>

StyleHeaps ==
    {<<d1[1], d2[1], d3[1], d1[2], d2[2], d3[2], PlotStyleValue[1], PlotStyleValue[2]>> :
        d1 \in Tops(Dict1, {Absent, IntCell(1)}, {DictOf(Absent, IntCell(1))},
                    {Absent, IntCell(1)}),
        d2 \in Tops(Dict2, {Absent, IntCell(2)},
                    {DictOf(Absent, IntCell(2)), DictOf(IntCell(2), Absent)},
                    {Absent, IntCell(2)}),
        d3 \in Tops(Dict3, {IntCell(3)},
                    {DictOf(Absent, IntCell(3)), DictOf(IntCell(3), Absent)},
                    {Absent})}

\* the `style__` keyword arguments of a call, split at "__"
StyleArg(parts, value) == [parts |-> parts, value |-> value]
StyleArgs ==
    {<<>>,
     <<StyleArg(<<"size">>, 7)>>,
     <<StyleArg(<<"marker", "size">>, 7)>>,
     <<StyleArg(<<"marker", "size">>, 7), StyleArg(<<"size">>, 7)>>}
\* the `style` argument of a call: none, the caller's dictionary, or a style
\* object
StyleDict(a) == Some([kind |-> "dict", addr |-> a])
StyleObject == Some([kind |-> "obj", addr |-> 0])
Styles == {None, StyleDict(Dict2), StyleObject}
StyleAttrs == {None, Some("dso")}

StyleInit ==
    /\ catalog = <<>>
    /\ marker_alpha = [t \in StyledTypes |-> DefaultAlpha]
    /\ objects = <<>>
    /\ legend = {}
    /\ ncalls = 0
    /\ pc = "idle"
    /\ caller = NoCaller
    /\ par = Bind(NoKwargs)
    /\ frame = NoFrame
    /\ i = 0
    /\ last = NoLast
    /\ calls = <<>>
    /\ exc = None
    /\ ev = NoEv
    /\ heap \in StyleHeaps
    /\ merged = <<>>
    /\ received = NoReceived

\* merge_dict(dict_1, d2) for one of the caller's other dictionaries
MergeDict ==
    \E d2 \in {Dict2, Dict3} :
        /\ Len(merged) < MaxMerges
        /\ heap' = merge_dict(heap, Dict1, d2)
        /\ merged' = Append(merged, [dict_2 |-> d2, before |-> DeepVal(heap, d2)])
        /\ UNCHANGED <<dsoVars, ev, received>>

\* a call of a function wrapped by use_style(style_class, style_attr)
UseStyle ==
    \E style_attr \in StyleAttrs, style \in Styles, style_args \in StyleArgs :
        LET r == wrapper(heap, style_attr, style, style_args)
        IN  /\ received' = [done |-> TRUE, style_attr |-> style_attr, style |-> style,
                            style_args |-> style_args, exc |-> r.exc,
                            passed |-> r.passed]
            /\ heap' = r.heap
            /\ UNCHANGED <<dsoVars, ev, merged>>

StyleNext ==
    \/ MergeDict
    \/ UseStyle

StyleSpec == StyleInit /\ [][StyleNext]_vars

-----------------------------------------------------------------------------
(* C13 *)

\* what a key path resolves to in the contents of a dictionary
Resolve(dv, p) == IF Len(p) = 1 THEN dv[p[1]].cell ELSE dv[p[1]].sub[p[2]]
LeafPaths == {<<"size">>} \cup {<<"marker", k>> : k \in Keys}
Overridden(style_args, p) == \E k \in 1..Len(style_args) : style_args[k].parts = p

\* C13: a wrapped function called with `style__` overrides and no `style`
\* gets a style built from them: every override path holds its value, and
\* every other path holds what the plot's base style holds when style_attr
\* is set and nothing when style_attr is None; the wrapper raises only when
\* a `style` dictionary and overrides are both supplied; the plot's base
\* style is never modified.
C13_OverridesBuildStyle ==
    received.done =>
        /\ (received.style = None /\ received.style_args # <<>>) =>
                /\ received.exc = None
                /\ received.passed.kind = "built"
                /\ \A p \in LeafPaths :
                        Resolve(received.passed.value, p) =
                            IF Overridden(received.style_args, p) THEN IntCell(7)
                            ELSE IF received.style_attr # None
                                 THEN Resolve(DeepVal(heap, PlotStyle), p)
                            ELSE Absent
        /\ received.exc # None =>
                /\ received.style # None
                /\ Val(received.style).kind = "dict"
                /\ received.style_args # <<>>
        /\ <<heap[PlotStyle], heap[PlotStyleMarker]>> = PlotStyleValue

-----------------------------------------------------------------------------
(* C14 *)

\* C14: a merge_dict() call leaves every dictionary merged so far, the one
\* it merges included, with the contents it had before it was merged; after
\* it every key path of dict_2 resolves in dict_1 to dict_2's value and the
\* other keys of dict_1 keep their values; merging the dictionary merged
\* last once more changes nothing.
C14_MergeModifiesOnlyDict1 ==
    [][merged' # merged =>
        LET d2 == merged'[Len(merged')].dict_2
            was1 == DeepVal(heap, Dict1)
            was2 == DeepVal(heap, d2)
            now1 == DeepVal(heap', Dict1)
        IN  /\ \A k \in 1..Len(merged') :
                    DeepVal(heap', merged'[k].dict_2) = merged'[k].before
            /\ \A k \in Keys :
                    CASE was2[k].cell.kind = "none" -> now1[k] = was1[k]
                      [] was2[k].cell.kind = "int" -> now1[k].cell = was2[k].cell
                      [] was2[k].cell.kind = "ref" ->
                            /\ now1[k].cell.kind = "ref"
                            /\ \A j \in Keys :
                                    now1[k].sub[j] =
                                        IF was2[k].sub[j] # Absent THEN was2[k].sub[j]
                                        ELSE was1[k].sub[j]
            /\ (merged # <<>> /\ merged[Len(merged)].dict_2 = d2) => heap' = heap]_vars

=============================================================================
